---- MODULE Spec2Model ----
(***************************************************************************)
(* Model of the Ethereum bridge module of nomic (src/src/ethereum/mod.rs): *)
(* the outbox of messages awaiting threshold signatures, the signatory-set *)
(* rotation, the escrow balance and the return queue.                      *)
(***************************************************************************)
EXTENDS Integers, Sequences, FiniteSets, TLC

(***************************************************************************)
(* Unsigned machine integers.  The voting powers and the coin amounts are   *)
(* u64 values computed through u128 intermediates and compared against      *)
(* u32::MAX and u64::MAX, so they are kept at full width as sequences of    *)
(* decimal digits, least significant digit first, without leading zeros     *)
(* (zero is the empty sequence).                                            *)
(***************************************************************************)
RECURSIVE Trim(_)
Trim(s) ==
    IF s = << >> THEN << >>
    ELSE IF s[Len(s)] = 0 THEN Trim(SubSeq(s, 1, Len(s) - 1))
    ELSE s

RECURSIVE Big(_)
Big(n) ==
    IF n = 0 THEN << >> ELSE <<n % 10>> \o Big(n \div 10)

RECURSIVE Reverse(_)
Reverse(s) ==
    IF s = << >> THEN << >> ELSE Reverse(Tail(s)) \o <<Head(s)>>

\* A literal written as in the source, most significant digit first.
Dec(s) == Trim(Reverse(s))

Digit(s, i) == IF i <= Len(s) THEN s[i] ELSE 0

RECURSIVE AddFrom(_, _, _, _)
AddFrom(a, b, i, carry) ==
    IF i > Len(a) /\ i > Len(b)
    THEN (IF carry = 0 THEN << >> ELSE <<carry>>)
    ELSE LET t == Digit(a, i) + Digit(b, i) + carry
         IN  <<t % 10>> \o AddFrom(a, b, i + 1, t \div 10)

BigAdd(a, b) == Trim(AddFrom(a, b, 1, 0))

RECURSIVE CmpFrom(_, _, _)
CmpFrom(a, b, i) ==
    IF i = 0 THEN 0
    ELSE IF a[i] < b[i] THEN -1
    ELSE IF a[i] > b[i] THEN 1
    ELSE CmpFrom(a, b, i - 1)

\* -1, 0 or 1 as a < b, a = b or a > b.
BigCmp(a, b) ==
    IF Len(a) < Len(b) THEN -1
    ELSE IF Len(a) > Len(b) THEN 1
    ELSE CmpFrom(a, b, Len(a))

BigLeq(a, b) == BigCmp(a, b) <= 0
BigLt(a, b) == BigCmp(a, b) < 0

RECURSIVE SubFrom(_, _, _, _)
SubFrom(a, b, i, borrow) ==
    IF i > Len(a) THEN << >>
    ELSE LET t == Digit(a, i) - Digit(b, i) - borrow
         IN  IF t < 0 THEN <<t + 10>> \o SubFrom(a, b, i + 1, 1)
             ELSE <<t>> \o SubFrom(a, b, i + 1, 0)

\* a - b for a >= b.
BigSub(a, b) == Trim(SubFrom(a, b, 1, 0))

RECURSIVE MulDigitFrom(_, _, _, _)
MulDigitFrom(a, d, i, carry) ==
    IF i > Len(a)
    THEN (IF carry = 0 THEN << >> ELSE <<carry>>)
    ELSE LET t == a[i] * d + carry
         IN  <<t % 10>> \o MulDigitFrom(a, d, i + 1, t \div 10)

BigMulDigit(a, d) == Trim(MulDigitFrom(a, d, 1, 0))

RECURSIVE BigMul(_, _)
BigMul(a, b) ==
    IF b = << >> THEN << >>
    ELSE BigAdd(BigMulDigit(a, Head(b)), Trim(<<0>> \o BigMul(a, Tail(b))))

\* The quotient digit of r by b, for r < 10 * b.
QuotDigit(r, b) ==
    CHOOSE d \in 0..9 :
        /\ BigLeq(BigMulDigit(b, d), r)
        /\ BigLt(r, BigMulDigit(b, d + 1))

\* Long division, from the most significant digit a[i] of a down: q is the
\* quotient of the digits above i, r their remainder (both looked at in
\* every round, so that they are computed round by round).
RECURSIVE DivFrom(_, _, _, _, _)
DivFrom(a, b, i, q, r) ==
    IF i = 0 \/ Len(q) + Len(r) < 0 THEN [q |-> q, r |-> r]
    ELSE LET r1 == Trim(<<a[i]>> \o r)
             d  == QuotDigit(r1, b)
         IN  DivFrom(a, b, i - 1, Trim(<<d>> \o q), BigSub(r1, BigMulDigit(b, d)))

\* floor(a / b) and a mod b, for b > 0.
BigDiv(a, b) == DivFrom(a, b, Len(a), << >>, << >>).q
BigMod(a, b) == DivFrom(a, b, Len(a), << >>, << >>).r

\* u32::MAX, u64::MAX and 2^64.
U32_MAX == Dec(<<4,2,9,4,9,6,7,2,9,5>>)
U64_MAX == Dec(<<1,8,4,4,6,7,4,4,0,7,3,7,0,9,5,5,1,6,1,5>>)
U64_MODULUS == Dec(<<1,8,4,4,6,7,4,4,0,7,3,7,0,9,5,5,1,6,1,6>>)

\* `n as u64`: the low 64 bits.
AsU64(n) == BigMod(n, U64_MODULUS)

RECURSIVE BigSum(_)
BigSum(s) ==
    IF s = << >> THEN << >> ELSE BigAdd(Head(s), BigSum(Tail(s)))

(***************************************************************************)
(* Bounds of the model and the inputs the host supplies.                    *)
(***************************************************************************)
\* The states explored hold at most MaxSize messages, signatures and
\* returns admitted in total: no enqueue, signature or return beyond it.
MaxSize == 4
\* relay_return is given at most MaxReturns returns.
MaxReturns == 2

VALSET_INTERVAL == 86400
WHITELISTED_RELAYER_ADDR == "nomic124j0ky0luh9jzqh9w2dk77cze9v0ckdupk50ny"

\* The fields of Ethereum that new sets and nothing changes afterwards.
id == "test"
token_contract == "token_contract"
valset_interval == VALSET_INTERVAL

Signatory(pk, vp) == [pubkey |-> pk, voting_power |-> Big(vp)]

\* The signatory set Ethereum::new is given, before normalization.
InitialValset ==
    [index |-> 10, create_time |-> 86400,
     signatories |-> <<Signatory("pkA", 1), Signatory("pkB", 2)>>,
     present_vp |-> Big(3), possible_vp |-> Big(3)]

\* The active signatory sets the host hands to step.  From InitialValset:
\* the first is due (a full interval later, another index), the second is
\* later but has the same index, the third has another index but is one
\* second short of the interval.  The third is created before the first and
\* the first before the second.
ActiveSigsets ==
    { [index |-> 11, create_time |-> 172800,
       signatories |-> <<Signatory("pkB", 1), Signatory("pkC", 1)>>,
       present_vp |-> Big(2), possible_vp |-> Big(3)],
      [index |-> 10, create_time |-> 259200,
       signatories |-> <<Signatory("pkA", 1), Signatory("pkB", 2)>>,
       present_vp |-> Big(3), possible_vp |-> Big(3)],
      [index |-> 12, create_time |-> 172799,
       signatories |-> <<Signatory("pkC", 7)>>,
       present_vp |-> Big(7), possible_vp |-> Big(7)] }

Pubkeys == {"pkA", "pkB", "pkC"}

\* Destinations of transfers (EVM addresses) and of returns (Dest).
Addresses == {"0xd1"}
Dests == {"acct1"}

\* The coins handed to transfer and call.
CoinAmounts == {Big(2), U64_MAX}
\* The amounts a relayer claims as returned.
ReturnAmounts == {Big(1), Big(2)}

ContractCalls ==
    { [contract |-> "0xc1", transfer_amount |-> Big(5), fee_amount |-> << >>,
       payload |-> "73b20547", timeout |-> U64_MAX] }

\* The message indices sign is called with: the window and around it, and
\* the index 42 of the out-of-range scenario.
MsgIndices == (0 .. MaxSize + 1) \cup {42}

\* The signer context of a call: none, an unsigned call, or an address.
SignerContexts ==
    {"no_context", "unsigned", WHITELISTED_RELAYER_ADDR, "nomic1other"}

RECURSIVE SeqsUpTo(_, _)
SeqsUpTo(S, n) ==
    IF n = 0 THEN {<< >>}
    ELSE LET shorter == SeqsUpTo(S, n - 1)
         IN  shorter \cup {Append(q, e) : q \in {t \in shorter : Len(t) = n - 1}, e \in S}

\* The lists of returns (entry index, dest, amount) a relayer submits.
ReturnLists == SeqsUpTo({<<0, d, a>> : d \in Dests, a \in ReturnAmounts}, MaxReturns)

(***************************************************************************)
(* The state: the fields of Ethereum, the build's overflow checks, the last *)
(* operation with its arguments and result, and three records of the past: *)
(* the message index each enqueue assigned, in the order of the enqueues,   *)
(* the total of the coins escrowed by transfer and call, and the total      *)
(* handed out by take_pending.                                              *)
(***************************************************************************)
VARIABLES
    overflow_checks, message_index, batch_index, valset_index, return_index,
    outbox, pending, coins, valset, op, assigned, deposited, taken

fields ==
    <<message_index, batch_index, valset_index, return_index,
      outbox, pending, coins, valset>>
history == <<assigned, deposited, taken>>
vars == <<overflow_checks, fields, op, history>>

\* The number of signatures held by the entries of an outbox.
RECURSIVE Signatures(_)
Signatures(ob) ==
    IF ob = << >> THEN 0
    ELSE Cardinality({i \in DOMAIN Head(ob).sigs.slots :
                         Head(ob).sigs.slots[i].signature # << >>})
         + Signatures(Tail(ob))

Size == Len(outbox) + Signatures(outbox) + return_index

(***************************************************************************)
(* Hashing.  keccak256 is taken to be collision free: a digest is the       *)
(* tagged preimage.  The preimages are the ABI tuples of the source.        *)
(***************************************************************************)
keccak256(bytes) == <<"keccak256", bytes>>

sighash(message) == keccak256(<<"\\x19Ethereum Signed Message:\\n32", message>>)

\* The EVM address of a key: the low 20 bytes of the digest of the key.
eth_address(pk) == <<"low20", keccak256(pk)>>

eth_addresses(vs) ==
    [i \in DOMAIN vs.signatories |-> eth_address(vs.signatories[i].pubkey)]

checkpoint_hash(cid, vs, index) ==
    keccak256(<<cid, "checkpoint", index,
                eth_addresses(vs),
                [i \in DOMAIN vs.signatories |-> vs.signatories[i].voting_power],
                "zero_address", "zero_bytes32">>)

batch_hash(cid, index, transfers, token, timeout) ==
    keccak256(<<cid, "transactionBatch",
                [i \in DOMAIN transfers |-> transfers[i].amount],
                [i \in DOMAIN transfers |-> transfers[i].dest],
                [i \in DOMAIN transfers |-> transfers[i].fee_amount],
                index, token, timeout>>)

ContractCall_hash(call, cid, token, nonce_id) ==
    keccak256(<<cid, "logicCall", <<call.transfer_amount>>, <<token>>,
                <<call.fee_amount>>, <<token>>, call.contract, call.payload,
                call.timeout, nonce_id, 1>>)

\* The three variants of OutMessageArgs.
Batch(transfers, timeout, index) ==
    [type |-> "Batch", transfers |-> transfers, timeout |-> timeout,
     batch_index |-> index]
LogicCall(nonce_id, call) ==
    [type |-> "LogicCall", nonce_id |-> nonce_id, call |-> call]
UpdateValset(index, vs) ==
    [type |-> "UpdateValset", valset_index |-> index, valset |-> vs]

message_hash(msg) ==
    sighash(CASE msg.type = "Batch" ->
                 batch_hash(id, msg.batch_index, msg.transfers, token_contract,
                            msg.timeout)
              [] msg.type = "LogicCall" ->
                 ContractCall_hash(msg.call, id, token_contract, msg.nonce_id)
              [] msg.type = "UpdateValset" ->
                 checkpoint_hash(id, msg.valset, msg.valset_index))

(***************************************************************************)
(* The signatory set and the threshold signature.                           *)
(***************************************************************************)
normalize_vp(vs, total) ==
    LET adjust(n) == AsU64(BigDiv(BigMul(n, total), vs.present_vp))
    IN  [vs EXCEPT
           !.signatories =
               [i \in DOMAIN vs.signatories |->
                   [vs.signatories[i] EXCEPT !.voting_power = adjust(@)]],
           !.possible_vp = adjust(@),
           !.present_vp = total]

\* A signature is valid for one key and one message.  An absent signature
\* is the empty sequence, a present one a sequence of one.
Signature(pk, message) == [by |-> pk, over |-> message]
verify(pk, message, sig) == sig.by = pk /\ sig.over = message

\* One unsigned slot per signatory, in the order of the set.
ThresholdSig_from_sigset(vs) ==
    [message |-> << >>,
     threshold |-> << >>,
     slots |-> [i \in DOMAIN vs.signatories |->
                  [pubkey |-> vs.signatories[i].pubkey,
                   voting_power |-> vs.signatories[i].voting_power,
                   signature |-> << >>]],
     signed_vp |-> << >>]

set_message(sigs, hash) == [sigs EXCEPT !.message = hash]

SlotsOf(sigs, pk) == {i \in DOMAIN sigs.slots : sigs.slots[i].pubkey = pk}
SlotOf(sigs, pk) == CHOOSE i \in SlotsOf(sigs, pk) : \A j \in SlotsOf(sigs, pk) : i <= j

\* The error ThresholdSig::sign ends with, or "Ok".
ThresholdSig_sign_result(sigs, pk, sig) ==
    IF SlotsOf(sigs, pk) = {} THEN "NoSuchPubkey"
    ELSE IF sigs.slots[SlotOf(sigs, pk)].signature # << >> THEN "AlreadySigned"
    ELSE IF ~verify(pk, sigs.message, sig) THEN "InvalidSignature"
    ELSE "Ok"

ThresholdSig_sign(sigs, pk, sig) ==
    [sigs EXCEPT
       !.slots[SlotOf(sigs, pk)].signature = <<sig>>,
       !.signed_vp = BigAdd(@, sigs.slots[SlotOf(sigs, pk)].voting_power)]

ThresholdSig_needs_sig(sigs, pk) ==
    /\ SlotsOf(sigs, pk) # {}
    /\ sigs.slots[SlotOf(sigs, pk)].signature = << >>

signed(sigs) == BigLeq(sigs.threshold, sigs.signed_vp)

ThresholdSig_sigs(sigs) ==
    LET RECURSIVE From(_)
        From(i) ==
            IF i > Len(sigs.slots) THEN << >>
            ELSE (IF sigs.slots[i].signature = << >> THEN << >>
                  ELSE <<<<sigs.slots[i].pubkey, sigs.slots[i].signature[1]>>>>)
                 \o From(i + 1)
    IN  From(1)

(***************************************************************************)
(* Ethereum.                                                                *)
(***************************************************************************)
\* normalize_vp(vs, u32::MAX as u64), tabulated for the sets the host supplies.
NormalizedU32 ==
    [vs \in ActiveSigsets \cup {InitialValset} |-> normalize_vp(vs, U32_MAX)]
normalize_u32(vs) ==
    IF vs \in DOMAIN NormalizedU32 THEN NormalizedU32[vs] ELSE normalize_vp(vs, U32_MAX)

\* u32::MAX as u64 * 2 / 3
Threshold == BigDiv(BigMul(U32_MAX, Big(2)), Big(3))

\* new storing the set as the caller passes it, without normalize_vp.
Ethereum_new_raw(vs) ==
    /\ message_index = 1
    /\ batch_index = 0
    /\ valset_index = 0
    /\ return_index = 0
    /\ outbox = << >>
    /\ pending = << >>
    /\ coins = << >>
    /\ valset = vs

Ethereum_new(vs) ==
    /\ message_index = 1
    /\ batch_index = 0
    /\ valset_index = 0
    /\ return_index = 0
    /\ outbox = << >>
    /\ pending = << >>
    /\ coins = << >>
    /\ valset = normalize_u32(vs)

\* The entry without the assignment of the threshold.
OutMessage_no_threshold(msg, vs) ==
    [sigset_index |-> vs.index,
     sigs |-> set_message(ThresholdSig_from_sigset(vs), message_hash(msg)),
     msg |-> msg]

\* The entry push_outbox builds for msg while vs is the current valset.
OutMessage(msg, vs) ==
    [sigset_index |-> vs.index,
     sigs |-> set_message(
                 [ThresholdSig_from_sigset(vs) EXCEPT
                    !.threshold = Threshold],
                 message_hash(msg)),
     msg |-> msg]

\* push_outbox with the test of the outbox inverted.
push_outbox_inverted(msg) ==
    /\ message_index' = IF outbox = << >> THEN message_index + 1 ELSE message_index
    /\ outbox' = Append(outbox, OutMessage(msg, valset))
    /\ assigned' = Append(assigned, message_index')

\* push_outbox without the test of the outbox.
push_outbox_always(msg) ==
    /\ message_index' = message_index + 1
    /\ outbox' = Append(outbox, OutMessage(msg, valset))
    /\ assigned' = Append(assigned, message_index')

\* push_outbox dropping the oldest entry when it enqueues onto others.
push_outbox_pruning(msg) ==
    /\ message_index' = IF outbox # << >> THEN message_index + 1 ELSE message_index
    /\ outbox' = Append(IF outbox # << >> THEN Tail(outbox) ELSE outbox,
                        OutMessage(msg, valset))
    /\ assigned' = Append(assigned, message_index')

\* push_outbox building the accumulators of the earlier entries anew.
push_outbox_resetting(msg) ==
    /\ message_index' = IF outbox # << >> THEN message_index + 1 ELSE message_index
    /\ outbox' = Append([k \in DOMAIN outbox |-> OutMessage(outbox[k].msg, valset)],
                        OutMessage(msg, valset))
    /\ assigned' = Append(assigned, message_index')

push_outbox(msg) ==
    /\ message_index' = IF outbox # << >> THEN message_index + 1 ELSE message_index
    /\ outbox' = Append(outbox, OutMessage(msg, valset))
    /\ assigned' = Append(assigned, message_index')

\* update_valset without normalize_vp.
update_valset_raw(new_valset) ==
    /\ valset_index' = valset_index + 1
    /\ push_outbox(UpdateValset(valset_index + 1, new_valset))
    /\ valset' = new_valset

\* update_valset replacing self.valset before the enqueue.
update_valset_early(new_valset) ==
    /\ valset_index' = valset_index + 1
    /\ message_index' = IF outbox # << >> THEN message_index + 1 ELSE message_index
    /\ outbox' = Append(outbox,
                        OutMessage(UpdateValset(valset_index + 1, normalize_u32(new_valset)),
                                   normalize_u32(new_valset)))
    /\ assigned' = Append(assigned, message_index')
    /\ valset' = normalize_u32(new_valset)

\* update_valset that enqueues the update and keeps the old self.valset.
update_valset_keep_valset(new_valset) ==
    /\ valset_index' = valset_index + 1
    /\ push_outbox(UpdateValset(valset_index + 1, normalize_u32(new_valset)))
    /\ UNCHANGED valset

\* update_valset enqueueing the update before it increments valset_index.
update_valset_stale_index(new_valset) ==
    /\ valset_index' = valset_index + 1
    /\ push_outbox(UpdateValset(valset_index, normalize_u32(new_valset)))
    /\ valset' = normalize_u32(new_valset)

update_valset(new_valset) ==
    /\ valset_index' = valset_index + 1
    /\ push_outbox(UpdateValset(valset_index + 1, normalize_u32(new_valset)))
    /\ valset' = normalize_u32(new_valset)

\* active_sigset.create_time - self.valset.create_time in u64: below zero
\* the subtraction overflows, and it wraps where the build does not check.
elapsed(active_sigset) ==
    IF active_sigset.create_time < valset.create_time
    THEN BigSub(U64_MODULUS, Big(valset.create_time - active_sigset.create_time))
    ELSE Big(active_sigset.create_time - valset.create_time)

step(active_sigset) ==
    IF active_sigset.create_time < valset.create_time /\ overflow_checks
    THEN /\ op' = [name |-> "step", res |-> "Panic", arg |-> active_sigset]
         /\ UNCHANGED <<fields, history>>
    ELSE IF /\ BigLeq(Big(valset_interval), elapsed(active_sigset))
            /\ valset.index # active_sigset.index
    THEN /\ Size < MaxSize
         /\ update_valset(active_sigset)
         /\ op' = [name |-> "step", res |-> "Ok", arg |-> active_sigset]
         /\ UNCHANGED <<batch_index, return_index, pending, coins, deposited, taken>>
    ELSE /\ op' = [name |-> "step", res |-> "Ok", arg |-> active_sigset]
         /\ UNCHANGED <<fields, history>>

\* Coin::give: the sum, which fails beyond u64::MAX.
give_ok(amount) == BigLeq(BigAdd(coins, amount), U64_MAX)

\* transfer enqueueing the batch before it increments batch_index.
transfer_stale_index(dest, amount) ==
    IF ~give_ok(amount)
    THEN /\ op' = [name |-> "transfer", res |-> "Err",
                   arg |-> [dest |-> dest, amount |-> amount]]
         /\ UNCHANGED <<fields, history>>
    ELSE /\ Size < MaxSize
         /\ coins' = BigAdd(coins, amount)
         /\ push_outbox(Batch(<<[dest |-> dest, amount |-> amount,
                                 fee_amount |-> << >>]>>,
                              U64_MAX, batch_index))
         /\ batch_index' = batch_index + 1
         /\ deposited' = BigAdd(deposited, amount)
         /\ op' = [name |-> "transfer", res |-> "Ok",
                   arg |-> [dest |-> dest, amount |-> amount]]
         /\ UNCHANGED <<valset_index, return_index, pending, valset, taken>>

\* transfer counting the batch before it gives the coins to the escrow.
transfer_index_first(dest, amount) ==
    IF ~give_ok(amount)
    THEN /\ batch_index' = batch_index + 1
         /\ op' = [name |-> "transfer", res |-> "Err",
                   arg |-> [dest |-> dest, amount |-> amount]]
         /\ UNCHANGED <<message_index, valset_index, return_index, outbox,
                        pending, coins, valset, history>>
    ELSE /\ Size < MaxSize
         /\ coins' = BigAdd(coins, amount)
         /\ batch_index' = batch_index + 1
         /\ push_outbox(Batch(<<[dest |-> dest, amount |-> amount,
                                 fee_amount |-> << >>]>>,
                              U64_MAX, batch_index + 1))
         /\ deposited' = BigAdd(deposited, amount)
         /\ op' = [name |-> "transfer", res |-> "Ok",
                   arg |-> [dest |-> dest, amount |-> amount]]
         /\ UNCHANGED <<valset_index, return_index, pending, valset, taken>>

\* transfer dropping the coins instead of giving them to the escrow.
transfer_no_give(dest, amount) ==
    /\ Size < MaxSize
    /\ coins' = coins
    /\ batch_index' = batch_index + 1
    /\ push_outbox(Batch(<<[dest |-> dest, amount |-> amount,
                            fee_amount |-> << >>]>>,
                         U64_MAX, batch_index + 1))
    /\ deposited' = BigAdd(deposited, amount)
    /\ op' = [name |-> "transfer", res |-> "Ok",
              arg |-> [dest |-> dest, amount |-> amount]]
    /\ UNCHANGED <<valset_index, return_index, pending, valset, taken>>

transfer(dest, amount) ==
    IF ~give_ok(amount)
    THEN /\ op' = [name |-> "transfer", res |-> "Err",
                   arg |-> [dest |-> dest, amount |-> amount]]
         /\ UNCHANGED <<fields, history>>
    ELSE /\ Size < MaxSize
         /\ coins' = BigAdd(coins, amount)
         /\ batch_index' = batch_index + 1
         /\ push_outbox(Batch(<<[dest |-> dest, amount |-> amount,
                                 fee_amount |-> << >>]>>,
                              U64_MAX, batch_index + 1))
         /\ deposited' = BigAdd(deposited, amount)
         /\ op' = [name |-> "transfer", res |-> "Ok",
                   arg |-> [dest |-> dest, amount |-> amount]]
         /\ UNCHANGED <<valset_index, return_index, pending, valset, taken>>

\* call taking the index its message is assigned as the nonce.
call_assigned_index(contract_call, amount) ==
    IF ~give_ok(amount)
    THEN /\ op' = [name |-> "call", res |-> "Err",
                   arg |-> [call |-> contract_call, amount |-> amount]]
         /\ UNCHANGED <<fields, history>>
    ELSE /\ Size < MaxSize
         /\ coins' = BigAdd(coins, amount)
         /\ push_outbox(LogicCall(IF outbox # << >> THEN message_index + 1
                                  ELSE message_index,
                                  contract_call))
         /\ deposited' = BigAdd(deposited, amount)
         /\ op' = [name |-> "call", res |-> "Ok",
                   arg |-> [call |-> contract_call, amount |-> amount]]
         /\ UNCHANGED <<batch_index, valset_index, return_index, pending, valset, taken>>

call(contract_call, amount) ==
    IF ~give_ok(amount)
    THEN /\ op' = [name |-> "call", res |-> "Err",
                   arg |-> [call |-> contract_call, amount |-> amount]]
         /\ UNCHANGED <<fields, history>>
    ELSE /\ Size < MaxSize
         /\ coins' = BigAdd(coins, amount)
         /\ push_outbox(LogicCall(message_index + 1, contract_call))
         /\ deposited' = BigAdd(deposited, amount)
         /\ op' = [name |-> "call", res |-> "Ok",
                   arg |-> [call |-> contract_call, amount |-> amount]]
         /\ UNCHANGED <<batch_index, valset_index, return_index, pending, valset, taken>>

\* take_pending draining the queue from the back.
take_pending_reversed ==
    /\ pending' = << >>
    /\ taken' = BigAdd(taken, BigSum([i \in DOMAIN pending |-> pending[i][2]]))
    /\ op' = [name |-> "take_pending", res |-> "Ok",
              arg |-> [i \in DOMAIN pending |-> pending[Len(pending) + 1 - i]]]
    /\ UNCHANGED <<message_index, batch_index, valset_index, return_index,
                   outbox, coins, valset, assigned, deposited>>

\* take_pending handing the entries out in either order.
take_pending_any_order ==
    /\ pending' = << >>
    /\ taken' = BigAdd(taken, BigSum([i \in DOMAIN pending |-> pending[i][2]]))
    /\ \E q \in {pending, [i \in DOMAIN pending |-> pending[Len(pending) + 1 - i]]} :
          op' = [name |-> "take_pending", res |-> "Ok", arg |-> q]
    /\ UNCHANGED <<message_index, batch_index, valset_index, return_index,
                   outbox, coins, valset, assigned, deposited>>

take_pending ==
    /\ pending' = << >>
    /\ taken' = BigAdd(taken, BigSum([i \in DOMAIN pending |-> pending[i][2]]))
    /\ op' = [name |-> "take_pending", res |-> "Ok", arg |-> pending]
    /\ UNCHANGED <<message_index, batch_index, valset_index, return_index,
                   outbox, coins, valset, assigned, deposited>>

\* abs_index with the upper test off by one.
abs_index_off_by_one(msg_index) ==
    LET start_index == message_index + 1 - Len(outbox)
    IN  IF outbox = << >> \/ msg_index >= message_index \/ msg_index < start_index
        THEN -1
        ELSE msg_index - start_index

\* abs_index counting the position from the newest entry.
abs_index_newest_first(msg_index) ==
    LET start_index == message_index + 1 - Len(outbox)
    IN  IF outbox = << >> \/ msg_index > message_index \/ msg_index < start_index
        THEN -1
        ELSE message_index - msg_index

\* The position of message msg_index in the outbox, counted from 0, or -1
\* for "message index out of bounds".
abs_index(msg_index) ==
    LET start_index == message_index + 1 - Len(outbox)
    IN  IF outbox = << >> \/ msg_index > message_index \/ msg_index < start_index
        THEN -1
        ELSE msg_index - start_index

\* Whether get and get_mut find the message, and the message they find.
get_ok(msg_index) == abs_index(msg_index) # -1
get(msg_index) == outbox[abs_index(msg_index) + 1]

\* needs_sig asking the entry at the front of the outbox.
needs_sig_front(msg_index, pk) == ThresholdSig_needs_sig(Head(outbox).sigs, pk)

needs_sig(msg_index, pk) == ThresholdSig_needs_sig(get(msg_index).sigs, pk)
get_sigs(msg_index) == ThresholdSig_sigs(get(msg_index).sigs)

\* The digest of a message that is in no outbox.
OtherMessage == sighash(keccak256(<<"another message">>))

\* The inputs of sign: every key with a signature of its own over the
\* message addressed and with one over another message; outside the window
\* of the outbox, where neither the key nor the signature is looked at, one
\* key and one signature.
SignInputs ==
    {[msg_index |-> i, pubkey |-> pk, sig |-> Signature(pk, get(i).sigs.message)] :
        i \in {j \in MsgIndices : get_ok(j)}, pk \in Pubkeys}
    \cup
    {[msg_index |-> i, pubkey |-> pk, sig |-> Signature(pk, OtherMessage)] :
        i \in {j \in MsgIndices : get_ok(j)}, pk \in Pubkeys}
    \cup
    {[msg_index |-> i, pubkey |-> "pkA", sig |-> Signature("pkA", OtherMessage)] :
        i \in {j \in MsgIndices : ~get_ok(j)}}

\* sign working on a copy of the entry (get in place of get_mut).
sign_discarded(msg_index, pk, sig, paid) ==
    LET arg == [msg_index |-> msg_index, pubkey |-> pk, sig |-> sig, paid |-> paid]
        res == IF ~paid THEN "NoPaymentPlugin"
               ELSE IF ~get_ok(msg_index) THEN "OutOfRange"
               ELSE ThresholdSig_sign_result(get(msg_index).sigs, pk, sig)
    IN  /\ res = "Ok" => Size < MaxSize
        /\ op' = [name |-> "sign", res |-> res, arg |-> arg]
        /\ UNCHANGED <<fields, history>>

\* sign dropping the error of ThresholdSig::sign for a key that has a slot.
sign_unchecked(msg_index, pk, sig, paid) ==
    LET arg == [msg_index |-> msg_index, pubkey |-> pk, sig |-> sig, paid |-> paid]
        res == IF ~paid THEN "NoPaymentPlugin"
               ELSE IF ~get_ok(msg_index) THEN "OutOfRange"
               ELSE IF SlotsOf(get(msg_index).sigs, pk) = {} THEN "NoSuchPubkey"
               ELSE "Ok"
    IN  /\ res = "Ok" => Size < MaxSize
        /\ op' = [name |-> "sign", res |-> res, arg |-> arg]
        /\ outbox' = IF res = "Ok"
                     THEN [outbox EXCEPT ![abs_index(msg_index) + 1].sigs =
                              ThresholdSig_sign(@, pk, sig)]
                     ELSE outbox
        /\ UNCHANGED <<message_index, batch_index, valset_index, return_index,
                       pending, coins, valset, history>>

\* exempt_from_fee fails where the call carries no payment plugin (paid).
sign(msg_index, pk, sig, paid) ==
    LET arg == [msg_index |-> msg_index, pubkey |-> pk, sig |-> sig, paid |-> paid]
        res == IF ~paid THEN "NoPaymentPlugin"
               ELSE IF ~get_ok(msg_index) THEN "OutOfRange"
               ELSE ThresholdSig_sign_result(get(msg_index).sigs, pk, sig)
    IN  /\ res = "Ok" => Size < MaxSize
        /\ op' = [name |-> "sign", res |-> res, arg |-> arg]
        /\ outbox' = IF res = "Ok"
                     THEN [outbox EXCEPT ![abs_index(msg_index) + 1].sigs =
                              ThresholdSig_sign(@, pk, sig)]
                     ELSE outbox
        /\ UNCHANGED <<message_index, batch_index, valset_index, return_index,
                       pending, coins, valset, history>>

\* relay_loop counting the call instead of each return.
RECURSIVE relay_loop_once(_, _, _)
relay_loop_once(returns, i, st) ==
    IF i > Len(returns) THEN [st EXCEPT !.res = "Ok"]
    ELSE IF BigLt(st.coins, returns[i][3]) THEN [st EXCEPT !.res = "InsufficientFunds"]
    ELSE relay_loop_once(returns, i + 1,
                    [st EXCEPT !.coins = BigSub(@, returns[i][3]),
                               !.pending = Append(@, <<returns[i][2], returns[i][3]>>),
                               !.return_index = IF i = 1 THEN @ + 1 ELSE @])

\* relay_loop queueing each return at the front of pending.
RECURSIVE relay_loop_front(_, _, _)
relay_loop_front(returns, i, st) ==
    IF i > Len(returns) THEN [st EXCEPT !.res = "Ok"]
    ELSE IF BigLt(st.coins, returns[i][3]) THEN [st EXCEPT !.res = "InsufficientFunds"]
    ELSE relay_loop_front(returns, i + 1,
                    [st EXCEPT !.coins = BigSub(@, returns[i][3]),
                               !.pending = <<<<returns[i][2], returns[i][3]>>>> \o @,
                               !.return_index = @ + 1])

\* relay_loop queueing each return without taking it from coins.
RECURSIVE relay_loop_no_debit(_, _, _)
relay_loop_no_debit(returns, i, st) ==
    IF i > Len(returns) THEN [st EXCEPT !.res = "Ok"]
    ELSE IF BigLt(st.coins, returns[i][3]) THEN [st EXCEPT !.res = "InsufficientFunds"]
    ELSE relay_loop_no_debit(returns, i + 1,
                             [st EXCEPT !.pending = Append(@, <<returns[i][2], returns[i][3]>>),
                                        !.return_index = @ + 1])

\* The loop of relay_return from the i-th return on: each return is taken
\* from coins, queued in pending and counted; the first that coins cannot
\* pay ends the call with the error of Coin::take.
RECURSIVE relay_loop(_, _, _)
relay_loop(returns, i, st) ==
    IF i > Len(returns) THEN [st EXCEPT !.res = "Ok"]
    ELSE IF BigLt(st.coins, returns[i][3]) THEN [st EXCEPT !.res = "InsufficientFunds"]
    ELSE relay_loop(returns, i + 1,
                    [st EXCEPT !.coins = BigSub(@, returns[i][3]),
                               !.pending = Append(@, <<returns[i][2], returns[i][3]>>),
                               !.return_index = @ + 1])

\* The signer check without the comparison with the whitelisted address.
signer_result_any_signer(signer) ==
    IF signer = "no_context" THEN "NoSignerContext"
    ELSE IF signer = "unsigned" THEN "Unsigned"
    ELSE "Ok"

\* The signer check of relay_return (compiled in outside test builds).
signer_result(signer) ==
    IF signer = "no_context" THEN "NoSignerContext"
    ELSE IF signer = "unsigned" THEN "Unsigned"
    ELSE IF signer # WHITELISTED_RELAYER_ADDR THEN "NotWhitelisted"
    ELSE "Ok"

\* relay_return without the test for an empty list of returns.
relay_return_no_empty_check(returns, signer, paid) ==
    LET arg == [returns |-> returns, signer |-> signer, paid |-> paid]
        done == relay_loop(returns, 1,
                           [coins |-> coins, pending |-> pending,
                            return_index |-> return_index, res |-> "Ok"])
    IN  IF ~paid
        THEN /\ op' = [name |-> "relay_return", res |-> "NoPaymentPlugin", arg |-> arg]
             /\ UNCHANGED <<fields, history>>
        ELSE IF signer_result(signer) # "Ok"
        THEN /\ op' = [name |-> "relay_return", res |-> signer_result(signer), arg |-> arg]
             /\ UNCHANGED <<fields, history>>
        ELSE /\ Size + Len(returns) <= MaxSize
             /\ coins' = done.coins
             /\ pending' = done.pending
             /\ return_index' = done.return_index
             /\ op' = [name |-> "relay_return", res |-> done.res, arg |-> arg]
             /\ UNCHANGED <<message_index, batch_index, valset_index, outbox,
                            valset, history>>

relay_return(returns, signer, paid) ==
    LET arg == [returns |-> returns, signer |-> signer, paid |-> paid]
        done == relay_loop(returns, 1,
                           [coins |-> coins, pending |-> pending,
                            return_index |-> return_index, res |-> "Ok"])
    IN  IF ~paid
        THEN /\ op' = [name |-> "relay_return", res |-> "NoPaymentPlugin", arg |-> arg]
             /\ UNCHANGED <<fields, history>>
        ELSE IF signer_result(signer) # "Ok"
        THEN /\ op' = [name |-> "relay_return", res |-> signer_result(signer), arg |-> arg]
             /\ UNCHANGED <<fields, history>>
        ELSE IF Len(returns) = 0
        THEN /\ op' = [name |-> "relay_return", res |-> "Empty", arg |-> arg]
             /\ UNCHANGED <<fields, history>>
        ELSE /\ Size + Len(returns) <= MaxSize
             /\ coins' = done.coins
             /\ pending' = done.pending
             /\ return_index' = done.return_index
             /\ op' = [name |-> "relay_return", res |-> done.res, arg |-> arg]
             /\ UNCHANGED <<message_index, batch_index, valset_index, outbox,
                            valset, history>>

\* The calls of relay_return: the whitelisted relayer with every list of
\* returns, and each call that the checks before the list reject.
RelayInputs ==
    {[returns |-> r, signer |-> WHITELISTED_RELAYER_ADDR, paid |-> TRUE] : r \in ReturnLists}
    \cup
    {[returns |-> <<<<0, "acct1", Big(1)>>>>, signer |-> s, paid |-> TRUE] :
        s \in SignerContexts}
    \cup
    {[returns |-> <<<<0, "acct1", Big(1)>>>>, signer |-> WHITELISTED_RELAYER_ADDR,
      paid |-> FALSE]}

(***************************************************************************)
(* The specification.                                                       *)
(***************************************************************************)
Init ==
    /\ overflow_checks \in BOOLEAN
    /\ Ethereum_new(InitialValset)
    /\ op = [name |-> "new", res |-> "Ok", arg |-> InitialValset]
    /\ assigned = << >>
    /\ deposited = << >>
    /\ taken = << >>

\* The host makes one call at a time: op is the call that has returned,
\* with its result, until the host takes it and is ready for the next.
Idle == op.name \in {"new", "idle"}

Step == Idle /\ \E a \in ActiveSigsets : step(a) /\ UNCHANGED overflow_checks
Transfer ==
    /\ Idle
    /\ \E d \in Addresses, a \in CoinAmounts : transfer(d, a) /\ UNCHANGED overflow_checks
Call ==
    /\ Idle
    /\ \E c \in ContractCalls, a \in CoinAmounts : call(c, a) /\ UNCHANGED overflow_checks
Sign ==
    /\ Idle
    /\ \E i \in SignInputs :
          sign(i.msg_index, i.pubkey, i.sig, TRUE) /\ UNCHANGED overflow_checks
SignUnpaid ==
    /\ Idle
    /\ sign(1, "pkA", Signature("pkA", OtherMessage), FALSE)
    /\ UNCHANGED overflow_checks
RelayReturn ==
    /\ Idle
    /\ \E i \in RelayInputs :
          relay_return(i.returns, i.signer, i.paid) /\ UNCHANGED overflow_checks
TakePending == Idle /\ take_pending /\ UNCHANGED overflow_checks
Return ==
    /\ ~Idle
    /\ op' = [name |-> "idle", res |-> "Ok", arg |-> << >>]
    /\ UNCHANGED <<overflow_checks, fields, history>>

Next ==
    \/ Step
    \/ Transfer
    \/ Call
    \/ Sign
    \/ SignUnpaid
    \/ RelayReturn
    \/ TakePending
    \/ Return

Spec == Init /\ [][Next]_vars

(***************************************************************************)
(* normalize_vp on its own: the signatory set is held in valset, a host     *)
(* applies normalize_vp to it with one total after another, and op records  *)
(* the total and the number of applications so far.  The other fields stay  *)
(* as new leaves them.                                                      *)
(***************************************************************************)
\* The sets have at most MaxSignatories signatories and are normalized at
\* most MaxNormalizations times in a row.
MaxSignatories == 3
MaxNormalizations == 2

\* Voting powers of the signatories, listed in ascending order, and the
\* voting power of those who are counted in possible_vp and not in
\* present_vp: none, or 2^33.
NormPowers == {Big(1), Big(10), Big(20), Big(30)}
NormAbsent == {<< >>, Dec(<<8,5,8,9,9,3,4,5,9,2>>)}
NormTotals == {<< >>, Big(6), Big(7), U32_MAX}

PowersOf(vs) == [i \in DOMAIN vs.signatories |-> vs.signatories[i].voting_power]

NormSets ==
    { [index |-> 0, create_time |-> 0,
       signatories |-> [i \in DOMAIN p |-> [pubkey |-> "pkA", voting_power |-> p[i]]],
       present_vp |-> BigSum(p),
       possible_vp |-> BigAdd(BigSum(p), a)] :
        p \in {q \in SeqsUpTo(NormPowers, MaxSignatories) \ {<< >>} :
                  \A i \in 1 .. Len(q) - 1 : BigLeq(q[i], q[i + 1])},
        a \in NormAbsent }

NormInit ==
    /\ overflow_checks = TRUE
    /\ message_index = 1
    /\ batch_index = 0
    /\ valset_index = 0
    /\ return_index = 0
    /\ outbox = << >>
    /\ pending = << >>
    /\ coins = << >>
    /\ valset \in NormSets
    /\ op = [name |-> "new", res |-> "Ok", arg |-> [total |-> << >>, applied |-> 0]]
    /\ assigned = << >>
    /\ deposited = << >>
    /\ taken = << >>

\* valset.normalize_vp(total); the division panics where present_vp is 0.
Normalize ==
    /\ op.arg.applied < MaxNormalizations
    /\ \E T \in NormTotals :
          LET arg == [total |-> T, applied |-> op.arg.applied + 1]
          IN  IF valset.present_vp = << >>
              THEN /\ op' = [name |-> "normalize_vp", res |-> "Panic", arg |-> arg]
                   /\ valset' = valset
              ELSE /\ op' = [name |-> "normalize_vp", res |-> "Ok", arg |-> arg]
                   /\ valset' = normalize_vp(valset, T)
    /\ UNCHANGED <<overflow_checks, message_index, batch_index, valset_index,
                   return_index, outbox, pending, coins, history>>

NormNext == Normalize

NormSpec == NormInit /\ [][NormNext]_vars

(***************************************************************************)
(* Fair signing.  The module is built on any of the signatory sets, the     *)
(* host makes the same calls as in Spec, and every signatory goes on        *)
(* submitting its signature over each message that still needs it.  A call  *)
(* that enqueues a message or admits a return is made only while the        *)
(* states explored have room left for the signatures of every entry, so     *)
(* that no signature is cut off by a bound.                                 *)
(***************************************************************************)
\* The messages and returns admitted, with a signature for every slot of
\* every message, number at most MaxFairSize in total.
MaxFairSize == 3

FairValsets == ActiveSigsets \cup {InitialValset}

FairInit ==
    /\ overflow_checks \in BOOLEAN
    /\ \E vs \in FairValsets :
          /\ Ethereum_new(vs)
          /\ op = [name |-> "new", res |-> "Ok", arg |-> vs]
    /\ assigned = << >>
    /\ deposited = << >>
    /\ taken = << >>

\* The slots of the outbox that hold no signature.
RECURSIVE Unsigned(_)
Unsigned(ob) ==
    IF ob = << >> THEN 0
    ELSE Cardinality({i \in DOMAIN Head(ob).sigs.slots :
                         Head(ob).sigs.slots[i].signature = << >>})
         + Unsigned(Tail(ob))

Reserved == Size + Unsigned(outbox) <= MaxFairSize

FairStep == Step /\ Reserved'
FairTransfer == Transfer /\ Reserved'
FairCall == Call /\ Reserved'
FairRelayReturn == RelayReturn /\ Reserved'

\* The signatory pk submits its signature over message msg_index, which
\* needs it.
FairSign(msg_index, pk) ==
    /\ Idle
    /\ get_ok(msg_index)
    /\ needs_sig(msg_index, pk)
    /\ sign(msg_index, pk, Signature(pk, get(msg_index).sigs.message), TRUE)
    /\ UNCHANGED overflow_checks

FairNext ==
    \/ FairStep
    \/ FairTransfer
    \/ FairCall
    \/ Sign
    \/ SignUnpaid
    \/ FairRelayReturn
    \/ TakePending
    \/ Return

\* Every call returns to the host, and while signatures are needed again
\* and again, one of them is submitted.  This asks less than that each
\* signatory submits each of its signatures.
Fairness ==
    /\ WF_vars(Return)
    /\ SF_vars(\E i \in 1 .. MaxFairSize, pk \in Pubkeys : FairSign(i, pk))

FairSpec == FairInit /\ [][FairNext]_vars /\ Fairness

(***************************************************************************)
(* The codec helpers on their own.  A byte is a number in 0 .. 255, a byte  *)
(* string a sequence of bytes, a u64 a number below 2^64.  A caller applies *)
(* the helpers one at a time, and op records the helper, its argument, its  *)
(* result and the word it returned, until the caller takes them.  The other *)
(* fields stay as new leaves them.                                          *)
(***************************************************************************)
\* The byte strings handed to bytes32 are all those of at most MaxShortBytes
\* bytes, and longer ones around the limit of 32.
MaxShortBytes == 2

Zeros(len) == [i \in 1 .. len |-> 0]

\* The value of a number below 10^9 held as digits.
RECURSIVE SmallInt(_)
SmallInt(digits) ==
    IF digits = << >> THEN 0 ELSE Head(digits) + 10 * SmallInt(Tail(digits))

\* 256^k for k in 0 .. 7, the weights of the bytes of a u64.
Pow256 ==
    <<Big(1), Big(256), Big(65536), Big(16777216),
      Dec(<<4,2,9,4,9,6,7,2,9,6>>),
      Dec(<<1,0,9,9,5,1,1,6,2,7,7,7,6>>),
      Dec(<<2,8,1,4,7,4,9,7,6,7,1,0,6,5,6>>),
      Dec(<<7,2,0,5,7,5,9,4,0,3,7,9,2,7,9,3,6>>)>>

\* u64::to_be_bytes: the eight bytes of num, most significant first.
to_be_bytes(num) ==
    [k \in 1 .. 8 |-> SmallInt(BigMod(BigDiv(num, Pow256[9 - k]), Big(256)))]

\* bytes32 padding on the left.
bytes32_left_padded(bytes) ==
    IF Len(bytes) > 32
    THEN [res |-> "Err", out |-> << >>]
    ELSE [res |-> "Ok",
          out |-> [i \in 1 .. 32 |-> IF i <= 32 - Len(bytes)
                                     THEN 0
                                     ELSE bytes[i - (32 - Len(bytes))]]]

bytes32(bytes) ==
    IF Len(bytes) > 32
    THEN [res |-> "Err", out |-> << >>]
    ELSE [res |-> "Ok",
          out |-> [i \in 1 .. 32 |-> IF i <= Len(bytes) THEN bytes[i] ELSE 0]]

uint256(n) ==
    LET be == to_be_bytes(n)
    IN  [i \in 1 .. 32 |-> IF i <= 24 THEN 0 ELSE be[i - 24]]

addr_to_bytes32(addr) ==
    [i \in 1 .. 32 |-> IF i <= 12 THEN 0 ELSE addr[i - 12]]

\* The inputs: bytes, the byte strings for bytes32 ("test" among them), the
\* u64 numbers (one byte set at each of the eight positions, and the ends
\* of the range), and the 20-byte addresses.
CodecBytes == {0, 1, 128, 255}
Patterned(len) ==
    {[i \in 1 .. len |-> IF i = len THEN c ELSE b] : b \in CodecBytes, c \in CodecBytes}
CodecStrings ==
    SeqsUpTo(CodecBytes, MaxShortBytes)
        \cup {<<116, 101, 115, 116>>}
        \cup Patterned(31) \cup Patterned(32) \cup Patterned(33) \cup Patterned(34)
CodecNumbers ==
    {BigMul(Pow256[k], Big(c)) : c \in CodecBytes, k \in 1 .. 8}
        \cup {U32_MAX, BigAdd(U32_MAX, Big(1)), BigSub(U64_MAX, Big(1)), U64_MAX}
CodecAddresses ==
    Patterned(20) \cup {[i \in 1 .. 20 |-> IF i = 1 THEN c ELSE 0] : c \in CodecBytes}

\* uint256, tabulated for the numbers of the model.
Uint256Words == [m \in CodecNumbers |-> uint256(m)]
uint256_word(m) == IF m \in DOMAIN Uint256Words THEN Uint256Words[m] ELSE uint256(m)

CodecInit ==
    /\ overflow_checks = TRUE
    /\ Ethereum_new(InitialValset)
    /\ op = [name |-> "new", res |-> "Ok", arg |-> << >>, out |-> << >>]
    /\ assigned = << >>
    /\ deposited = << >>
    /\ taken = << >>

Bytes32 ==
    /\ Idle
    /\ \E b \in CodecStrings :
          op' = [name |-> "bytes32", res |-> bytes32(b).res, arg |-> b,
                 out |-> bytes32(b).out]
    /\ UNCHANGED <<overflow_checks, fields, history>>
Uint256 ==
    /\ Idle
    /\ \E m \in CodecNumbers :
          op' = [name |-> "uint256", res |-> "Ok", arg |-> m, out |-> uint256_word(m)]
    /\ UNCHANGED <<overflow_checks, fields, history>>
AddrToBytes32 ==
    /\ Idle
    /\ \E a \in CodecAddresses :
          op' = [name |-> "addr_to_bytes32", res |-> "Ok", arg |-> a,
                 out |-> addr_to_bytes32(a)]
    /\ UNCHANGED <<overflow_checks, fields, history>>

CodecNext ==
    \/ Bytes32
    \/ Uint256
    \/ AddrToBytes32
    \/ Return

CodecSpec == CodecInit /\ [][CodecNext]_vars

(***************************************************************************)
(* The properties.                                                          *)
(***************************************************************************)
Last(q) == q[Len(q)]
Succeeded(name) == op.name = name /\ op.res = "Ok"

\* The transfers of the Batch entries of an outbox, and the amounts of a
\* queue of pending returns.
RECURSIVE BatchAmounts(_)
BatchAmounts(ob) ==
    IF ob = << >> THEN << >>
    ELSE (IF Head(ob).msg.type = "Batch"
          THEN [i \in DOMAIN Head(ob).msg.transfers |-> Head(ob).msg.transfers[i].amount]
          ELSE << >>)
         \o BatchAmounts(Tail(ob))
PendingAmounts(q) == [i \in DOMAIN q |-> q[i][2]]

\* C1: in every reachable state the outbox is no longer than message_index,
\* and its entries carry the message indices message_index + 1 - len ..
\* message_index in queue order: the k-th entry is the one its enqueue
\* assigned that index to, and the one get finds under it.
C1_OutboxWindow ==
    /\ Len(outbox) <= message_index
    /\ Len(assigned) = Len(outbox)
    /\ \A k \in 1 .. Len(outbox) :
          /\ assigned[k] = message_index + 1 - Len(outbox) + (k - 1)
          /\ get_ok(assigned[k])
          /\ get(assigned[k]) = outbox[k]
C1_Witness == Len(outbox) = 3 /\ Signatures(outbox) >= 1 /\ message_index = 3

\* C2: the first enqueue leaves message_index at 1 and every later one adds
\* one to it: after k >= 1 enqueues message_index = k = outbox.len(), and
\* before the first message_index = 1 and the outbox is empty.
C2_EnqueueCount ==
    LET k == Len(assigned)
    IN  /\ k = 0 => message_index = 1 /\ outbox = << >>
        /\ k >= 1 => message_index = k /\ Len(outbox) = k
        /\ k >= 1 => assigned[1] = 1
        /\ \A j \in 2 .. k : assigned[j] = assigned[j - 1] + 1
C2_Witness ==
    /\ Len(assigned) = 3
    /\ {outbox[k].msg.type : k \in 1 .. 3} = {"Batch", "LogicCall", "UpdateValset"}

\* C3: no step decreases message_index, batch_index, valset_index or
\* return_index; a successful transfer adds 1 to batch_index only, a rotating
\* step 1 to valset_index only, a successful relay_return the number of its
\* returns to return_index only, every other operation leaves the three
\* unchanged; and message_index changes only by +1, on an enqueue into an
\* outbox that is not empty.
C3_Rotating == op'.name = "step" /\ Len(outbox') = Len(outbox) + 1
C3_Step ==
    /\ message_index' >= message_index
    /\ batch_index' >= batch_index
    /\ valset_index' >= valset_index
    /\ return_index' >= return_index
    /\ batch_index' - batch_index =
          (IF op'.name = "transfer" /\ op'.res = "Ok" THEN 1 ELSE 0)
    /\ valset_index' - valset_index = (IF C3_Rotating THEN 1 ELSE 0)
    /\ op'.name = "relay_return" /\ op'.res = "Ok" =>
          return_index' - return_index = Len(op'.arg.returns)
    /\ op'.name # "relay_return" => return_index' = return_index
    /\ message_index' # message_index =>
          /\ message_index' = message_index + 1
          /\ outbox # << >>
          /\ Len(outbox') = Len(outbox) + 1
          /\ op'.name \in {"transfer", "call", "step"}
C3_IndexSteps == [][C3_Step]_vars
C3_Witness ==
    /\ Succeeded("relay_return")
    /\ Len(op.arg.returns) = 2
    /\ return_index = 2
    /\ batch_index >= 1

\* C4 as the specification states it: the escrow covers the transfers of the Batch entries of
\* the outbox (none of which the module ever marks as relayed or removes)
\* and the pending returns.
C4_EscrowCoversPending ==
    BigLeq(BigAdd(BigSum(BatchAmounts(outbox)), BigSum(PendingAmounts(pending))), coins)

\* C4, amended: the returns are paid out of the escrow, so it is the escrow
\* together with the returns admitted (those pending and those take_pending
\* has handed out) that covers the transfers of the Batch entries.
C4_EscrowAndReturnsCoverBatches ==
    BigLeq(BigSum(BatchAmounts(outbox)),
           BigAdd(coins, BigAdd(BigSum(PendingAmounts(pending)), taken)))
C4_Witness ==
    /\ \E k \in DOMAIN outbox : outbox[k].msg.type = "Batch"
    /\ pending # << >>
    /\ taken # << >>
    /\ BigLt(coins, BigSum(BatchAmounts(outbox)))

\* C5: the present_vp of the current valset is u32::MAX in every reachable
\* state, after new and after every rotation.
C5_PresentVp == valset.present_vp = U32_MAX
C5_Witness ==
    /\ Succeeded("step")
    /\ valset_index = 2
    /\ valset.index # InitialValset.index
    /\ Last(outbox).msg.type = "UpdateValset"

\* C6: step rotates the valset (one UpdateValset enqueued, the valset
\* replaced) exactly if active_sigset.create_time - valset.create_time >=
\* valset_interval and the indices differ, and otherwise returns Ok and
\* changes no field.
C6_Due(a) ==
    /\ a.create_time - valset.create_time >= valset_interval
    /\ a.index # valset.index
C6_Step ==
    op'.name = "step" =>
        IF C6_Due(op'.arg)
        THEN /\ op'.res = "Ok"
             /\ Len(outbox') = Len(outbox) + 1
             /\ SubSeq(outbox', 1, Len(outbox)) = outbox
             /\ Last(outbox').msg.type = "UpdateValset"
             /\ valset' = normalize_vp(op'.arg, U32_MAX)
        ELSE /\ op'.res = "Ok"
             /\ UNCHANGED fields
C6_StepRotatesIffDue == [][C6_Step]_vars

\* C7: the UpdateValset a rotation enqueues is to be signed by the outgoing
\* valset: its slots are the signatories of the valset before the rotation,
\* in order and unsigned, and its sigset_index the index of that valset;
\* its payload is the incremented valset_index with the new valset
\* normalized to u32::MAX, which is the valset after the rotation.
C7_Step ==
    op'.name = "step" /\ Len(outbox') = Len(outbox) + 1 =>
        LET entry == Last(outbox')
        IN  /\ valset' = normalize_vp(op'.arg, U32_MAX)
            /\ valset'.present_vp = U32_MAX
            /\ Len(entry.sigs.slots) = Len(valset.signatories)
            /\ \A i \in DOMAIN valset.signatories :
                  /\ entry.sigs.slots[i].pubkey = valset.signatories[i].pubkey
                  /\ entry.sigs.slots[i].voting_power = valset.signatories[i].voting_power
                  /\ entry.sigs.slots[i].signature = << >>
            /\ entry.sigset_index = valset.index
            /\ valset_index' = valset_index + 1
            /\ entry.msg = UpdateValset(valset_index', valset')
            /\ entry.sigs.message = sighash(checkpoint_hash(id, valset', valset_index'))
C7_SignedByOutgoing == [][C7_Step]_vars
C7_Witness ==
    /\ Succeeded("step")
    /\ outbox # << >>
    /\ Last(outbox).msg.type = "UpdateValset"
    /\ Last(outbox).msg.valset = valset
    /\ Last(outbox).sigset_index # valset.index
    /\ {Last(outbox).sigs.slots[i].pubkey : i \in DOMAIN Last(outbox).sigs.slots}
          # {valset.signatories[i].pubkey : i \in DOMAIN valset.signatories}

\* C8: a successful transfer(dest, coins) adds the amount of coins to the
\* escrow and 1 to batch_index, and appends one entry to the outbox: a Batch
\* of the one Transfer {dest, amount, fee_amount 0}, with timeout u64::MAX
\* and the batch_index after the increment.
C8_Step ==
    op'.name = "transfer" /\ op'.res = "Ok" =>
        /\ coins' = BigAdd(coins, op'.arg.amount)
        /\ batch_index' = batch_index + 1
        /\ Len(outbox') = Len(outbox) + 1
        /\ SubSeq(outbox', 1, Len(outbox)) = outbox
        /\ Last(outbox').msg =
              [type |-> "Batch",
               transfers |-> <<[dest |-> op'.arg.dest, amount |-> op'.arg.amount,
                                fee_amount |-> Big(0)]>>,
               timeout |-> U64_MAX,
               batch_index |-> batch_index']
C8_Transfer == [][C8_Step]_vars
C8_Witness ==
    /\ Succeeded("transfer")
    /\ batch_index = 2
    /\ Len(outbox) = 3
    /\ Last(outbox).msg.type = "Batch"
    /\ Last(outbox).msg.batch_index = 2

\* C9: a successful call(call, coins) adds the amount of coins to the
\* escrow and appends one entry LogicCall(n, call) where n is message_index
\* + 1 as it was before the enqueue: the index the entry is assigned if the
\* outbox held a message, and one more than it if the outbox was empty;
\* batch_index, valset_index and return_index do not change.
C9_Step ==
    op'.name = "call" /\ op'.res = "Ok" =>
        /\ coins' = BigAdd(coins, op'.arg.amount)
        /\ Len(outbox') = Len(outbox) + 1
        /\ SubSeq(outbox', 1, Len(outbox)) = outbox
        /\ Last(outbox').msg = LogicCall(message_index + 1, op'.arg.call)
        /\ outbox # << >> => Last(outbox').msg.nonce_id = Last(assigned')
        /\ outbox = << >> => Last(outbox').msg.nonce_id = Last(assigned') + 1
        /\ UNCHANGED <<batch_index, valset_index, return_index>>
C9_Call == [][C9_Step]_vars
C9_Witness ==
    /\ Succeeded("call")
    /\ Len(outbox) = 1
    /\ message_index = 1
    /\ Last(outbox).msg.nonce_id = 2

\* C10: sign and get address the outbox through abs_index.  With start =
\* message_index + 1 - outbox.len(), msg_index is out of range if the outbox
\* is empty or msg_index > message_index or msg_index < start.  get fails
\* exactly out of range and otherwise finds the entry at position msg_index
\* - start.  A sign out of range fails, with the out-of-range error once the
\* fee exemption is granted, and changes no field; in range it changes at
\* most the entry at position msg_index - start, and a signature it accepts
\* is one over the message of that entry.
C10_OutOfRange(i) ==
    \/ outbox = << >>
    \/ i > message_index
    \/ i < message_index + 1 - Len(outbox)
C10_Position(i) == i - (message_index + 1 - Len(outbox)) + 1
C10_Get ==
    \A i \in MsgIndices :
        /\ get_ok(i) <=> ~C10_OutOfRange(i)
        /\ get_ok(i) => get(i) = outbox[C10_Position(i)]
C10_Step ==
    /\ C10_Get
    /\ op'.name = "sign" =>
          LET i == op'.arg.msg_index
          IN  /\ C10_OutOfRange(i) => op'.res # "Ok" /\ UNCHANGED fields
              /\ C10_OutOfRange(i) /\ op'.arg.paid => op'.res = "OutOfRange"
              /\ op'.res = "OutOfRange" => C10_OutOfRange(i)
              /\ ~C10_OutOfRange(i) =>
                    /\ Len(outbox') = Len(outbox)
                    /\ \A k \in DOMAIN outbox :
                          k # C10_Position(i) => outbox'[k] = outbox[k]
                    /\ op'.res = "Ok" =>
                          /\ outbox'[C10_Position(i)] # outbox[C10_Position(i)]
                          /\ op'.arg.sig.over = outbox[C10_Position(i)].sigs.message
C10_AbsIndex == [][C10_Step]_vars
C10_Witness ==
    /\ op.name = "sign"
    /\ op.res = "OutOfRange"
    /\ op.arg.msg_index = 42
    /\ Len(outbox) = 1
    /\ message_index = 1
C10_WitnessInRange ==
    /\ Succeeded("sign")
    /\ Len(outbox) = 3
    /\ op.arg.msg_index = 2
    /\ Signatures(<<outbox[2]>>) = 1

\* C11: in every reachable state, signed_vp of every outbox entry is the sum
\* of the voting power of the slots that hold a signature, and the entry is
\* signed() exactly if that sum reaches the threshold floor(u32::MAX * 2 / 3);
\* a successful sign(msg_index, pubkey, sig) stores sig in the slot of pubkey
\* of the entry addressed, leaves the other slots as they were and adds the
\* voting power of that slot to signed_vp.
C11_SignedPower(sigs) ==
    BigSum([i \in DOMAIN sigs.slots |->
               IF sigs.slots[i].signature # << >> THEN sigs.slots[i].voting_power
               ELSE << >>])
C11_Accounted(ob) ==
    \A k \in DOMAIN ob :
        /\ ob[k].sigs.signed_vp = C11_SignedPower(ob[k].sigs)
        /\ signed(ob[k].sigs) <=>
              BigCmp(C11_SignedPower(ob[k].sigs), Dec(<<2,8,6,3,3,1,1,5,3,0>>)) >= 0
C11_Step ==
    op'.name = "sign" /\ op'.res = "Ok" =>
        LET p == C10_Position(op'.arg.msg_index)
            before == outbox[p].sigs
            after == outbox'[p].sigs
        IN  \E j \in DOMAIN before.slots :
               /\ before.slots[j].pubkey = op'.arg.pubkey
               /\ before.slots[j].signature = << >>
               /\ after.slots = [before.slots EXCEPT ![j].signature = <<op'.arg.sig>>]
               /\ after.signed_vp = BigAdd(before.signed_vp, before.slots[j].voting_power)
C11_SignedVp == [](C11_Accounted(outbox)) /\ [][C11_Step]_vars
C11_Witness ==
    /\ Succeeded("sign")
    /\ Len(outbox) = 2
    /\ signed(outbox[1].sigs)
    /\ Signatures(<<outbox[1]>>) = 1
    /\ Signatures(<<outbox[2]>>) = 1
    /\ ~signed(outbox[2].sigs)

\* C12: a sign addressing an entry of the outbox is rejected, and changes no
\* field, if the pubkey has no slot in the entry, if its slot holds a
\* signature already, or if the signature does not verify against the
\* message of the entry; so an accepted signature always fills an empty
\* slot, and no entry counts more voting power than its slots carry.
C12_Rejected(sigs, pk, sig) ==
    \/ \A j \in DOMAIN sigs.slots : sigs.slots[j].pubkey # pk
    \/ \E j \in DOMAIN sigs.slots :
          sigs.slots[j].pubkey = pk /\ sigs.slots[j].signature # << >>
    \/ sig # Signature(pk, sigs.message)
C12_Step ==
    op'.name = "sign" /\ ~C10_OutOfRange(op'.arg.msg_index) =>
        LET sigs == outbox[C10_Position(op'.arg.msg_index)].sigs
        IN  /\ C12_Rejected(sigs, op'.arg.pubkey, op'.arg.sig) =>
                  op'.res # "Ok" /\ UNCHANGED fields
            /\ ~C12_Rejected(sigs, op'.arg.pubkey, op'.arg.sig) /\ op'.arg.paid =>
                  op'.res = "Ok"
C12_CountedOnce ==
    \A k \in DOMAIN outbox :
        BigLeq(outbox[k].sigs.signed_vp,
               BigSum([j \in DOMAIN outbox[k].sigs.slots |->
                          outbox[k].sigs.slots[j].voting_power]))
C12_SignRejected == []C12_CountedOnce /\ [][C12_Step]_vars
C12_Witness ==
    /\ op.name = "sign"
    /\ op.res = "AlreadySigned"
    /\ op.arg.sig = Signature(op.arg.pubkey, get(op.arg.msg_index).sigs.message)
    /\ signed(get(op.arg.msg_index).sigs)

\* C13: a successful relay_return of the returns (i_1, d_1, a_1), ...,
\* (i_n, d_n, a_n) was given at least one return, takes a_1 + ... + a_n from
\* coins, adds n to return_index and appends (d_1, a_1), ..., (d_n, a_n) to
\* pending in that order; the outbox, the valset and the other indices are
\* unchanged.
C13_Step ==
    op'.name = "relay_return" /\ op'.res = "Ok" =>
        LET returns == op'.arg.returns
        IN  /\ Len(returns) >= 1
            /\ BigAdd(coins', BigSum([k \in DOMAIN returns |-> returns[k][3]])) = coins
            /\ return_index' = return_index + Len(returns)
            /\ pending' = pending \o [k \in DOMAIN returns |->
                                         <<returns[k][2], returns[k][3]>>]
            /\ UNCHANGED <<outbox, message_index, batch_index, valset_index, valset>>
C13_RelayReturn == [][C13_Step]_vars
C13_Witness ==
    /\ Succeeded("relay_return")
    /\ Len(op.arg.returns) = 2
    /\ op.arg.returns[1][3] # op.arg.returns[2][3]
    /\ Len(pending) = 2
    /\ coins # << >>

\* C14: a relay_return that fails because a return exceeds what is left of
\* the escrow leaves coins, pending and return_index as they were before
\* the call.
C14_Step ==
    op'.name = "relay_return" /\ op'.res = "InsufficientFunds" =>
        UNCHANGED <<coins, pending, return_index>>
C14_FailedRelayInvisible == [][C14_Step]_vars

\* C15: a relay_return whose signer context is absent, unsigned or another
\* address than the whitelisted relayer's fails and changes no field: no
\* entry of pending is created and nothing is taken from coins.
C15_Step ==
    op'.name = "relay_return" /\ op'.arg.signer # WHITELISTED_RELAYER_ADDR =>
        /\ op'.res # "Ok"
        /\ UNCHANGED fields
C15_WhitelistedOnly == [][C15_Step]_vars
C15_Witness ==
    /\ op.name = "relay_return"
    /\ op.res = "NotWhitelisted"
    /\ op.arg.paid
    /\ BigLeq(op.arg.returns[1][3], coins)

\* C16: relay_return with an empty list of returns fails and leaves coins,
\* pending, return_index and the outbox unchanged.
C16_Step ==
    op'.name = "relay_return" /\ op'.arg.returns = << >> =>
        /\ op'.res # "Ok"
        /\ UNCHANGED <<coins, pending, return_index, outbox>>
C16_EmptyReturns == [][C16_Step]_vars
C16_Witness ==
    /\ op.name = "relay_return"
    /\ op.res = "Empty"
    /\ op.arg.returns = << >>
    /\ op.arg.signer = WHITELISTED_RELAYER_ADDR
    /\ coins # << >>

\* C17: take_pending returns the entries of pending from the front to the
\* back, which is the order relay_return admitted them in, and leaves
\* pending empty; coins, the indices, the outbox and the valset do not
\* change, and since pending is empty after it a take_pending that follows
\* returns the empty list.
C17_Step ==
    op'.name = "take_pending" =>
        /\ op'.res = "Ok"
        /\ op'.arg = pending
        /\ pending' = << >>
        /\ UNCHANGED <<coins, message_index, batch_index, valset_index,
                       return_index, outbox, valset>>
C17_TakePending == [][C17_Step]_vars
C17_Witness ==
    /\ Succeeded("take_pending")
    /\ Len(op.arg) = 2
    /\ op.arg[1] # op.arg[2]
    /\ pending = << >>
    /\ return_index = 2
C17_WitnessSecond ==
    /\ Succeeded("take_pending")
    /\ op.arg = << >>
    /\ taken # << >>

\* C18: a transfer or a call whose coins the escrow cannot take (the sum
\* with coins.amount exceeds u64::MAX, so coins.give fails) fails and
\* changes no field: coins, batch_index, message_index and the outbox are
\* as before the call.
C18_Step ==
    /\ op'.name \in {"transfer", "call"}
    /\ BigLt(U64_MAX, BigAdd(coins, op'.arg.amount))
    => /\ op'.res # "Ok"
       /\ UNCHANGED fields
C18_GiveFails == [][C18_Step]_vars
C18_Witness ==
    /\ op.name = "transfer"
    /\ op.res = "Err"
    /\ op.arg.amount = U64_MAX
    /\ coins = Big(2)
    /\ batch_index = 1
    /\ Len(outbox) = 1

\* C19: an entry of the outbox is changed by sign only.  No operation
\* shortens the outbox or changes the msg, the sigset_index, the threshold,
\* the message hash or the pubkeys and voting powers of the slots of an
\* entry already enqueued, and every operation other than sign leaves the
\* entries already enqueued exactly as they were.
C19_Step ==
    /\ Len(outbox') >= Len(outbox)
    /\ \A k \in DOMAIN outbox :
          /\ outbox'[k].msg = outbox[k].msg
          /\ outbox'[k].sigset_index = outbox[k].sigset_index
          /\ outbox'[k].sigs.threshold = outbox[k].sigs.threshold
          /\ outbox'[k].sigs.message = outbox[k].sigs.message
          /\ Len(outbox'[k].sigs.slots) = Len(outbox[k].sigs.slots)
          /\ \A j \in DOMAIN outbox[k].sigs.slots :
                /\ outbox'[k].sigs.slots[j].pubkey = outbox[k].sigs.slots[j].pubkey
                /\ outbox'[k].sigs.slots[j].voting_power =
                      outbox[k].sigs.slots[j].voting_power
          /\ op'.name # "sign" => outbox'[k] = outbox[k]
C19_EntriesFixed == [][C19_Step]_vars
C19_Witness ==
    /\ Succeeded("step")
    /\ Len(outbox) = 2
    /\ outbox[1].sigset_index # valset.index
    /\ Signatures(<<outbox[1]>>) = 1
    /\ outbox[2].msg.type = "UpdateValset"

\* C20: for a signatory set whose voting powers sum to present_vp > 0,
\* normalize_vp(T) sets present_vp to T and every voting power and
\* possible_vp to floor(old * T / old present_vp); the new voting powers sum
\* to at most T and fall short of T by at most the number of signatories.
\* Powers 10, 20, 30 of present_vp 60 become 1, 2, 3 under T = 6 and then
\* 715827882, 1431655765, 2147483647 under T = u32::MAX.
C20_Pre(vs) == vs.present_vp # << >> /\ BigSum(PowersOf(vs)) = vs.present_vp
C20_Floor(old, total, present) == BigDiv(BigMul(old, total), present)
C20_Powers(vs, total) ==
    /\ vs.present_vp # << >> /\ BigSum(PowersOf(vs)) = vs.present_vp
    /\ valset'.present_vp = total
    /\ Len(valset'.signatories) = Len(vs.signatories)
    /\ \A i \in DOMAIN vs.signatories :
          valset'.signatories[i].voting_power =
              C20_Floor(vs.signatories[i].voting_power, total, vs.present_vp)
    /\ BigLeq(BigSum(PowersOf(valset')), total)
    /\ BigLeq(total, BigAdd(BigSum(PowersOf(valset')), Big(Len(vs.signatories))))
C20_Examples(vs, total) ==
    /\ PowersOf(vs) = <<Big(10), Big(20), Big(30)>> /\ total = Big(6)
          => PowersOf(valset') = <<Big(1), Big(2), Big(3)>>
    /\ PowersOf(vs) = <<Big(1), Big(2), Big(3)>> /\ total = U32_MAX
          => PowersOf(valset') = <<Big(715827882), Big(1431655765), Big(2147483647)>>
C20_Step ==
    op'.name = "normalize_vp" /\ C20_Pre(valset) =>
        /\ op'.res = "Ok"
        /\ C20_Powers(valset, op'.arg.total)
        /\ C20_Examples(valset, op'.arg.total)
        /\ valset'.possible_vp =
              C20_Floor(valset.possible_vp, op'.arg.total, valset.present_vp)
C20_Normalize == [][C20_Step]_vars

\* C20 where the quotient for possible_vp fits a u64: all of the above; and
\* where it does not, all of it but for possible_vp, which is the quotient
\* modulo 2^64.
C20_StepU64 ==
    op'.name = "normalize_vp" /\ C20_Pre(valset) =>
        /\ op'.res = "Ok"
        /\ C20_Powers(valset, op'.arg.total)
        /\ C20_Examples(valset, op'.arg.total)
        /\ valset'.possible_vp =
              AsU64(C20_Floor(valset.possible_vp, op'.arg.total, valset.present_vp))
C20_NormalizeU64 == [][C20_StepU64]_vars
C20_Witness ==
    /\ op.name = "normalize_vp"
    /\ op.arg.applied = 2
    /\ op.arg.total = U32_MAX
    /\ PowersOf(valset) = <<Big(715827882), Big(1431655765), Big(2147483647)>>

\* C21: step returns Ok for every active_sigset, and for one created before
\* the current valset it changes no field: the subtraction of the creation
\* times neither aborts the call nor turns into a rotation.
C21_Step ==
    op'.name = "step" =>
        /\ op'.res = "Ok"
        /\ op'.arg.create_time < valset.create_time => UNCHANGED fields
C21_StepNeverUnderflows == [][C21_Step]_vars

\* C22: the core is deterministic.  The result of a call and every field
\* after it are functions of the fields before it, the operation and its
\* arguments (and of the build, which replicas share): whatever step the
\* system takes for a call ends in the one state and result computed here
\* from the state before, so two replicas that start from the same state
\* and apply the same calls stay identical.
C22_Fields ==
    [message_index |-> message_index, batch_index |-> batch_index,
     valset_index |-> valset_index, return_index |-> return_index,
     outbox |-> outbox, pending |-> pending, coins |-> coins, valset |-> valset]
C22_Enqueue(st, msg) ==
    [st EXCEPT !.message_index = IF outbox # << >> THEN @ + 1 ELSE @,
               !.outbox = Append(@, OutMessage(msg, valset))]
C22_Outcome(name, arg) ==
    CASE name = "step" ->
           IF arg.create_time < valset.create_time /\ overflow_checks
           THEN [res |-> "Panic", st |-> C22_Fields]
           ELSE IF /\ BigLeq(Big(valset_interval), elapsed(arg))
                   /\ valset.index # arg.index
           THEN [res |-> "Ok",
                 st |-> [C22_Enqueue(C22_Fields,
                                     UpdateValset(valset_index + 1, normalize_u32(arg)))
                            EXCEPT !.valset_index = @ + 1,
                                   !.valset = normalize_u32(arg)]]
           ELSE [res |-> "Ok", st |-> C22_Fields]
      [] name = "transfer" ->
           IF BigLt(U64_MAX, BigAdd(coins, arg.amount))
           THEN [res |-> "Err", st |-> C22_Fields]
           ELSE [res |-> "Ok",
                 st |-> [C22_Enqueue(C22_Fields,
                                     Batch(<<[dest |-> arg.dest, amount |-> arg.amount,
                                              fee_amount |-> << >>]>>,
                                           U64_MAX, batch_index + 1))
                            EXCEPT !.coins = BigAdd(@, arg.amount),
                                   !.batch_index = @ + 1]]
      [] name = "call" ->
           IF BigLt(U64_MAX, BigAdd(coins, arg.amount))
           THEN [res |-> "Err", st |-> C22_Fields]
           ELSE [res |-> "Ok",
                 st |-> [C22_Enqueue(C22_Fields, LogicCall(message_index + 1, arg.call))
                            EXCEPT !.coins = BigAdd(@, arg.amount)]]
      [] name = "sign" ->
           LET res == IF ~arg.paid THEN "NoPaymentPlugin"
                      ELSE IF ~get_ok(arg.msg_index) THEN "OutOfRange"
                      ELSE ThresholdSig_sign_result(get(arg.msg_index).sigs,
                                                    arg.pubkey, arg.sig)
           IN  [res |-> res,
                st |-> IF res # "Ok" THEN C22_Fields
                       ELSE [C22_Fields EXCEPT
                               !.outbox[abs_index(arg.msg_index) + 1].sigs =
                                   ThresholdSig_sign(@, arg.pubkey, arg.sig)]]
      [] name = "relay_return" ->
           LET done == relay_loop(arg.returns, 1,
                                  [coins |-> coins, pending |-> pending,
                                   return_index |-> return_index, res |-> "Ok"])
               res == IF ~arg.paid THEN "NoPaymentPlugin"
                      ELSE IF signer_result(arg.signer) # "Ok"
                      THEN signer_result(arg.signer)
                      ELSE IF Len(arg.returns) = 0 THEN "Empty"
                      ELSE done.res
           IN  [res |-> res,
                st |-> IF res \in {"Ok", "InsufficientFunds"}
                       THEN [C22_Fields EXCEPT !.coins = done.coins,
                                               !.pending = done.pending,
                                               !.return_index = done.return_index]
                       ELSE C22_Fields]
      [] name = "take_pending" ->
           [res |-> "Ok", st |-> [C22_Fields EXCEPT !.pending = << >>]]
C22_Step ==
    op'.name \in {"step", "transfer", "call", "sign", "relay_return", "take_pending"} =>
        /\ [res |-> op'.res, st |-> C22_Fields'] =
              C22_Outcome(op'.name, IF op'.name = "take_pending" THEN << >> ELSE op'.arg)
        /\ op'.name = "take_pending" => op'.arg = pending
C24_VariantHash(msg) ==
    CASE msg.type = "Batch" ->
           batch_hash(id, msg.batch_index, msg.transfers, token_contract, msg.timeout)
      [] msg.type = "LogicCall" ->
           ContractCall_hash(msg.call, id, token_contract, msg.nonce_id)
      [] msg.type = "UpdateValset" ->
           checkpoint_hash(id, msg.valset, msg.valset_index)
C24_Step ==
    Len(outbox') = Len(outbox) + 1 =>
        LET entry == Last(outbox')
        IN  /\ Len(entry.sigs.slots) = Len(valset.signatories)
            /\ \A i \in DOMAIN valset.signatories :
                  entry.sigs.slots[i] =
                      [pubkey |-> valset.signatories[i].pubkey,
                       voting_power |-> valset.signatories[i].voting_power,
                       signature |-> << >>]
            /\ entry.sigs.signed_vp = Big(0)
            /\ entry.sigs.threshold = Dec(<<2,8,6,3,3,1,1,5,3,0>>)
            /\ entry.sigs.threshold = BigDiv(BigMul(U32_MAX, Big(2)), Big(3))
            /\ entry.sigs.message = sighash(C24_VariantHash(entry.msg))
            /\ entry.sigset_index = valset.index
            /\ ~signed(entry.sigs)
C24_FreshAccumulator == [][C24_Step]_vars
C24_Witness ==
    /\ Succeeded("call")
    /\ Len(outbox) = 2
    /\ signed(outbox[1].sigs)
    /\ outbox[2].sigs.signed_vp = Big(0)
    /\ outbox[2].sigset_index = valset.index

\* C25: step is idempotent.  In the state a step(active_sigset) leaves,
\* whatever its outcome, a second step(active_sigset) changes no field; and a
\* step that rotated committed a valset with the index and the create_time
\* of active_sigset, so the second one enqueues no UpdateValset.
C25_SecondStepChangesNothing ==
    C22_Outcome("step", op.arg).st = C22_Fields
C25_Step ==
    op'.name = "step" =>
        /\ C25_SecondStepChangesNothing'
        /\ valset_index' # valset_index =>
              /\ valset'.index = op'.arg.index
              /\ valset'.create_time = op'.arg.create_time
              /\ C22_Outcome("step", op'.arg).st # C22_Fields
C25_StepIdempotent == [][C25_Step]_vars
C25_Witness ==
    /\ Succeeded("step")
    /\ valset_index = 1
    /\ outbox # << >>
    /\ Last(outbox).msg.type = "UpdateValset"
    /\ valset.index = op.arg.index
    /\ valset # InitialValset

\* C26: needs_sig(msg_index, pubkey) answers true exactly when msg_index is
\* inside the window of the outbox and the entry it addresses has a slot of
\* pubkey without a signature (outside the window it fails, which is not
\* true).  After a successful sign(msg_index, pubkey, sig) it answers false
\* and get_sigs(msg_index) holds (pubkey, sig); an answer of false remains
\* false in every later state.
C26_InWindow(i) ==
    /\ outbox # << >>
    /\ message_index + 1 - Len(outbox) <= i
    /\ i <= message_index
C26_Entry(i) == outbox[i - (message_index + 1 - Len(outbox)) + 1]
C26_Contains(seq, x) == \E k \in DOMAIN seq : seq[k] = x
C26_NeedsSigIff ==
    \A i \in MsgIndices, pk \in Pubkeys :
        (get_ok(i) /\ needs_sig(i, pk))
            <=> /\ C26_InWindow(i)
                /\ \E k \in DOMAIN C26_Entry(i).sigs.slots :
                      /\ C26_Entry(i).sigs.slots[k].pubkey = pk
                      /\ C26_Entry(i).sigs.slots[k].signature = << >>
C26_Answered(i, pk) == get_ok(i) /\ ~needs_sig(i, pk)
C26_Step ==
    /\ (op'.name = "sign" /\ op'.res = "Ok") =>
          \E i \in MsgIndices, pk \in Pubkeys :
              /\ i = op'.arg.msg_index /\ pk = op'.arg.pubkey
              /\ get_ok(i) /\ needs_sig(i, pk)
              /\ C26_Answered(i, pk)'
              /\ ~C26_Contains(get_sigs(i), <<pk, op'.arg.sig>>)
              /\ C26_Contains(get_sigs(i)', <<pk, op'.arg.sig>>)
    /\ \A i \in MsgIndices, pk \in Pubkeys :
          C26_Answered(i, pk) => C26_Answered(i, pk)'
C26_NeedsSig == []C26_NeedsSigIff /\ [][C26_Step]_vars
C26_Witness ==
    /\ Succeeded("sign")
    /\ Len(outbox) = 2
    /\ op.arg.msg_index = message_index
    /\ ~needs_sig(op.arg.msg_index, op.arg.pubkey)
    /\ needs_sig(op.arg.msg_index - 1, op.arg.pubkey)
    /\ \E pk \in Pubkeys : pk # op.arg.pubkey /\ needs_sig(op.arg.msg_index, pk)

\* C27: any two distinct LogicCall entries of the outbox carry different
\* nonce ids.
C27_DistinctNonces ==
    \A i, j \in DOMAIN outbox :
        (/\ i # j
         /\ outbox[i].msg.type = "LogicCall"
         /\ outbox[j].msg.type = "LogicCall")
            => outbox[i].msg.nonce_id # outbox[j].msg.nonce_id

\* C28: quorum is stable.  Over every step each outbox entry stays in its
\* place, its threshold does not change and its signed_vp does not decrease,
\* so an entry that is signed() is signed() after the step.
C28_Step ==
    \A k \in DOMAIN outbox :
        /\ k \in DOMAIN outbox'
        /\ outbox'[k].sigs.threshold = outbox[k].sigs.threshold
        /\ BigLeq(outbox[k].sigs.signed_vp, outbox'[k].sigs.signed_vp)
        /\ signed(outbox[k].sigs) => signed(outbox'[k].sigs)
C28_QuorumStable == [][C28_Step]_vars
C28_Witness ==
    /\ Succeeded("step")
    /\ Len(outbox) = 2
    /\ signed(outbox[1].sigs)
    /\ outbox[2].msg.type = "UpdateValset"
    /\ ~signed(outbox[2].sigs)

\* C29: quorum is reachable.  The voting powers of the slots of every
\* outbox entry, as normalize_vp left them, sum to at least the threshold
\* floor(u32::MAX * 2 / 3), so an entry whose slots all hold a signature is
\* signed(); and under fair signing every message that is enqueued is
\* signed() at some later time (an entry takes one unit of MaxFairSize and
\* each of its slots another, so the outbox holds at most MaxFairSize \div 2
\* entries).
C29_SlotPowers(sigs) == [i \in DOMAIN sigs.slots |-> sigs.slots[i].voting_power]
C29_AllSigned(sigs) == \A i \in DOMAIN sigs.slots : sigs.slots[i].signature # << >>
C29_AllSignedIsQuorum ==
    \A k \in DOMAIN outbox :
        /\ BigLeq(Dec(<<2,8,6,3,3,1,1,5,3,0>>), BigSum(C29_SlotPowers(outbox[k].sigs)))
        /\ C29_AllSigned(outbox[k].sigs) => signed(outbox[k].sigs)
C29_EventuallySigned ==
    \A k \in 1 .. MaxFairSize \div 2 :
        (Len(outbox) >= k) ~> (Len(outbox) >= k /\ signed(outbox[k].sigs))
C29_QuorumReachable == []C29_AllSignedIsQuorum /\ C29_EventuallySigned
C29_Witness ==
    /\ Succeeded("sign")
    /\ outbox # << >>
    /\ Len(outbox[1].sigs.slots) = 2
    /\ C29_AllSigned(outbox[1].sigs)
    /\ signed(outbox[1].sigs)
    /\ BigLt(BigSum(C29_SlotPowers(outbox[1].sigs)), U32_MAX)

\* C30: escrowed coins are conserved.  In every reachable state the total
\* deposited by the successful transfer and call operations equals
\* coins.amount plus the amounts queued in pending plus the amounts
\* take_pending has handed out; and a step changes that total only by the
\* amount of a successful transfer or call.
C30_Total(held, queue, out) ==
    BigAdd(held, BigAdd(BigSum(PendingAmounts(queue)), out))
C30_Balance == deposited = C30_Total(coins, pending, taken)
C30_Step ==
    C30_Total(coins', pending', taken') =
        IF op'.name \in {"transfer", "call"} /\ op'.res = "Ok"
        THEN BigAdd(C30_Total(coins, pending, taken), op'.arg.amount)
        ELSE C30_Total(coins, pending, taken)
C30_Conservation == []C30_Balance /\ [][C30_Step]_vars
C30_Witness ==
    /\ Succeeded("relay_return")
    /\ coins # Big(0)
    /\ pending # << >>
    /\ taken # Big(0)
    /\ BigLt(coins, deposited)

\* C31: the sequence numbers in the outbox have no gap and no duplicate.
\* The Batch entries, read in the order of the outbox, carry batch_index
\* 1, 2, 3, ... and the UpdateValset entries valset_index 1, 2, 3, ...;
\* batch_index is the number of Batch entries and valset_index the number of
\* UpdateValset entries (no entry is ever removed, so these are the entries
\* ever enqueued); and a step that changes either counter changes it by one
\* and appends the entry that carries the new value.
C31_IsBatch(entry) == entry.msg.type = "Batch"
C31_IsUpdateValset(entry) == entry.msg.type = "UpdateValset"
C31_Batches == SelectSeq(outbox, C31_IsBatch)
C31_UpdateValsets == SelectSeq(outbox, C31_IsUpdateValset)
C31_Numbered ==
    /\ Len(C31_Batches) = batch_index
    /\ \A j \in DOMAIN C31_Batches : C31_Batches[j].msg.batch_index = j
    /\ Len(C31_UpdateValsets) = valset_index
    /\ \A j \in DOMAIN C31_UpdateValsets : C31_UpdateValsets[j].msg.valset_index = j
C31_Step ==
    /\ batch_index' # batch_index =>
          /\ batch_index' = batch_index + 1
          /\ outbox' = Append(outbox, Last(outbox'))
          /\ Last(outbox').msg.type = "Batch"
          /\ Last(outbox').msg.batch_index = batch_index'
    /\ valset_index' # valset_index =>
          /\ valset_index' = valset_index + 1
          /\ outbox' = Append(outbox, Last(outbox'))
          /\ Last(outbox').msg.type = "UpdateValset"
          /\ Last(outbox').msg.valset_index = valset_index'
C31_SequenceNumbers == []C31_Numbered /\ [][C31_Step]_vars
C31_Witness ==
    /\ Len(outbox) = 3
    /\ batch_index = 2
    /\ valset_index = 1
    /\ outbox[2].msg.type = "UpdateValset"
    /\ outbox[3].msg.batch_index = 2

\* C32: message indices are stable addresses.  While the outbox is not
\* empty get(i) succeeds for every i in 1 .. message_index, and only for
\* those, and finds under each of them another entry; the entry an enqueue
\* appends is found under the index message_index has after it, which no
\* message had before; and what get(i) finds keeps its msg and its message
\* hash over every step of every operation.
C32_Addressable ==
    /\ outbox # << >> =>
          /\ \A i \in 1 .. message_index : get_ok(i)
          /\ \A i, j \in 1 .. message_index :
                abs_index(i) = abs_index(j) => i = j
          /\ Len(outbox) = message_index
    /\ \A i \in MsgIndices :
          get_ok(i) =>
              /\ outbox # << >> /\ 1 <= i /\ i <= message_index
              /\ get(i).sigs.message = message_hash(get(i).msg)
C32_Step ==
    /\ \A i \in MsgIndices :
          get_ok(i) =>
              /\ get_ok(i)'
              /\ get(i)'.msg = get(i).msg
              /\ get(i)'.sigs.message = get(i).sigs.message
    /\ Len(outbox') = Len(outbox) + 1 =>
          \E i \in MsgIndices :
              /\ i = message_index'
              /\ ~get_ok(i)
              /\ get_ok(i)'
              /\ get(i)' = Last(outbox')
C32_StableAddresses == []C32_Addressable /\ [][C32_Step]_vars
C32_Witness ==
    /\ Succeeded("sign")
    /\ op.arg.msg_index = 1
    /\ Len(outbox) = 3
    /\ message_index = 3
    /\ get(1) = outbox[1]
    /\ get(1).msg # get(3).msg

\* C33: the codec helpers return words of 32 bytes.  bytes32(b) is b
\* followed by zero bytes up to 32 where b has at most 32 bytes, and an
\* error where it has more; uint256(n) is 24 zero bytes followed by the 8
\* bytes that read, most significant first, as n; addr_to_bytes32(a) is 12
\* zero bytes followed by the 20 bytes of a; and among the inputs of one
\* length no other input is mapped to the same word.
C33_Value(word) ==
    BigSum([k \in 1 .. Len(word) |-> BigMul(Pow256[Len(word) + 1 - k], Big(word[k]))])
C33_IsWord(word) == Len(word) = 32 /\ \A i \in 1 .. 32 : word[i] \in 0 .. 255
C33_Bytes32 ==
    op.name = "bytes32" =>
        IF Len(op.arg) <= 32
        THEN /\ op.res = "Ok"
             /\ C33_IsWord(op.out)
             /\ op.out = op.arg \o Zeros(32 - Len(op.arg))
             /\ \A b \in CodecStrings :
                   (Len(b) = Len(op.arg) /\ bytes32(b).out = op.out) => b = op.arg
        ELSE op.res = "Err"
C33_Uint256 ==
    op.name = "uint256" =>
        /\ C33_IsWord(op.out)
        /\ SubSeq(op.out, 1, 24) = Zeros(24)
        /\ C33_Value(SubSeq(op.out, 25, 32)) = op.arg
        /\ \A m \in CodecNumbers : uint256_word(m) = op.out => m = op.arg
C33_AddrToBytes32 ==
    op.name = "addr_to_bytes32" =>
        /\ C33_IsWord(op.out)
        /\ op.out = Zeros(12) \o op.arg
        /\ \A a \in CodecAddresses : addr_to_bytes32(a) = op.out => a = op.arg
C33_Codec == C33_Bytes32 /\ C33_Uint256 /\ C33_AddrToBytes32
C33_Witness ==
    /\ op.name = "bytes32"
    /\ op.res = "Ok"
    /\ Len(op.arg) = 31
    /\ op.arg[31] = 255
    /\ op.out[31] = 255
    /\ op.out[32] = 0

====
